---- MODULE Spec2Model ----
(***************************************************************************)
(* Model of the native network monitor (native/NetworkMonitor.cpp,         *)
(* CNetworkListManagerEvents.cpp, Utils.cpp):                              *)
(*   - the connectivity subscriber (COM connection point on the Network    *)
(*     List Manager),                                                      *)
(*   - the wireless subscriber with its hysteresis state machine,          *)
(*   - the main thread's message queue (PostThreadMessage / GetMessage),   *)
(*   - the start / stop lifecycle run by main() and by OnExit().           *)
(* Platform calls are recorded in the ghost trace `calls`; every entry     *)
(* says whether the call was made on a live object / open handle / an      *)
(* existing registration (valid) and whether the platform reported         *)
(* success (succeeded).                                                    *)
(***************************************************************************)
EXTENDS Integers, Sequences, FiniteSets, TLC

VARIABLES
    pc,                     \* position of the main thread
    comDepth,               \* outstanding successful CoInitializeEx calls
    g_pNetworkListManager,
    g_pCPContainer,
    g_pConnectPoint,
    g_pNetEvents,
    g_dwCookie,
    refs,                   \* reference counts of the COM objects involved
    advised,                \* the sink is registered with the connection point
    g_hClient,
    hState,                 \* platform state of the wireless client handle
    wlanRegistered,         \* the wireless notification callback is registered
    monitorCtx,
    g_networkConnected,
    msgQueue,               \* message queue of the main thread
    netCb,                  \* ConnectivityChanged call running on a COM thread
    currentConnectivity,    \* local of StartNetworkMonitor: result of GetConnectivity
    posted,                 \* ghost: every event handed to PostThreadMessage, in order
    delivered,              \* ghost: every event the loop of main() received, in order
    calls,                  \* ghost: trace of platform calls and routine entries
    quitAt,                 \* ghost: number of events posted before WM_QUIT was
    seen,                   \* ghost: the quality notifications handled, one record each
    wlanCb                  \* WlanNotificationCallback calls running on platform threads

vars == <<pc, comDepth, g_pNetworkListManager, g_pCPContainer, g_pConnectPoint,
          g_pNetEvents, g_dwCookie, refs, advised, g_hClient, hState,
          wlanRegistered, monitorCtx, g_networkConnected, msgQueue, netCb,
          currentConnectivity, posted, delivered, calls, quitAt, seen, wlanCb>>

comVars == <<comDepth, g_pNetworkListManager, g_pCPContainer, g_pConnectPoint,
             g_pNetEvents, g_dwCookie, refs, advised>>

wlanVars == <<g_hClient, hState, wlanRegistered>>

\* ------------------------------------------------------------------------
\* Bounds of the model
\* ------------------------------------------------------------------------
MaxPosts == 3       \* events posted in one behaviour
MaxSeen == 5        \* notifications handled in one behaviour of SpecWlan
MaxQuality == 110   \* largest signal quality a notification carries in SpecRssi

\* ------------------------------------------------------------------------
\* Program constants
\* ------------------------------------------------------------------------
NULL == 0
InitialThresholdDrop == 40
InitialThresholdRecover == 50
InitialLastQuality == 100
SizeofULONG == 4

WM_NETWORK_STATUS_CHANGE == "WM_NETWORK_STATUS_CHANGE"
WM_WIFI_SIGNAL_CHANGE == "WM_WIFI_SIGNAL_CHANGE"
WM_QUIT == "WM_QUIT"

\* NLM_CONNECTIVITY is a bit mask; a value is modelled as the set of its bits.
NLM_CONNECTIVITY_FLAGS ==
    {"IPV4_NOTRAFFIC", "IPV4_SUBNET", "IPV4_LOCALNETWORK", "IPV4_INTERNET",
     "IPV6_NOTRAFFIC", "IPV6_SUBNET", "IPV6_LOCALNETWORK", "IPV6_INTERNET"}

NLM_CONNECTIVITY_DISCONNECTED == {}

AllConnectivities == SUBSET NLM_CONNECTIVITY_FLAGS

\* connectivity values the platform reports in the lifecycle specification
Connectivities ==
    {NLM_CONNECTIVITY_DISCONNECTED, {"IPV4_LOCALNETWORK"}, {"IPV4_SUBNET", "IPV6_INTERNET"}}

\* quality values the platform reports
Qualities == {38, 40, 42, 45, 50, 55, 60}
StartQualities == {40, 41}

\* ------------------------------------------------------------------------
\* Pure functions
\* ------------------------------------------------------------------------
\* static initializer of monitorCtx
InitialMonitorCtx ==
    [thresholdDrop |-> InitialThresholdDrop,
     thresholdRecover |-> InitialThresholdRecover,
     isSignalWeak |-> FALSE,
     lastQuality |-> InitialLastQuality]

\* mutant: the conversion is not capped at quality 100
QualityToRSSI_Unclamped(quality) ==
    IF quality = 0 THEN -100
    ELSE (quality \div 2) - 100

\* Utils.cpp, QualityToRSSI: (int)((double)quality / 2.0) truncates a
\* non-negative quotient, i.e. quality \div 2.
QualityToRSSI(quality) ==
    IF quality = 0 THEN -100
    ELSE IF quality >= 100 THEN -50
    ELSE (quality \div 2) - 100

\* mutant: only the IPv4 flag is tested
HasInternet_IPv4Only(connectivity) ==
    "IPV4_INTERNET" \in connectivity

\* sendNetworkStatusMessage: the Internet mask
HasInternet(connectivity) ==
    ("IPV4_INTERNET" \in connectivity) \/ ("IPV6_INTERNET" \in connectivity)

\* the message posted by sendNetworkStatusMessage
NetworkStatusMessage(connectivity) ==
    IF HasInternet(connectivity)
    THEN [message |-> WM_NETWORK_STATUS_CHANGE, wParam |-> 1, lParam |-> 0]
    ELSE [message |-> WM_NETWORK_STATUS_CHANGE, wParam |-> 0, lParam |-> 0]

\* mutant: quality and rssi change places in the message
WlanStatusMessage_Swapped(quality, rssi) ==
    [message |-> WM_WIFI_SIGNAL_CHANGE, wParam |-> rssi, lParam |-> quality]

\* the message posted by sendWlanStatusMessage
WlanStatusMessage(quality, rssi) ==
    [message |-> WM_WIFI_SIGNAL_CHANGE, wParam |-> quality, lParam |-> rssi]

\* PrintConnectivity: the value it leaves in g_networkConnected
PrintConnectivity(connected, connectivity) ==
    IF connectivity = NLM_CONNECTIVITY_DISCONNECTED THEN FALSE
    ELSE IF "IPV4_INTERNET" \in connectivity \/ "IPV6_INTERNET" \in connectivity
         THEN TRUE
         ELSE connected

\* mutant: the dead zone is narrowed, the drop is tested against thresholdRecover
BecomesWeak_Narrowed(ctx, quality) ==
    (~ctx.isSignalWeak) /\ quality < ctx.thresholdRecover

\* first branch of the hysteresis: strong signal falls to thresholdDrop or below
BecomesWeak(ctx, quality) ==
    (~ctx.isSignalWeak) /\ quality <= ctx.thresholdDrop

\* second branch (else if): weak signal recovers to thresholdRecover or above
BecomesStrong(ctx, quality) ==
    (~BecomesWeak(ctx, quality)) /\ ctx.isSignalWeak /\ quality >= ctx.thresholdRecover

\* entries of the ghost trace
Call(fn, valid, succeeded) ==
    [kind |-> "call", fn |-> fn, valid |-> valid, succeeded |-> succeeded]

Enter(fn) ==
    [kind |-> "enter", fn |-> fn, valid |-> TRUE, succeeded |-> TRUE]

\* `return value;` of a start routine: 0 reports success
Return(fn, value) ==
    [kind |-> "return", fn |-> fn, valid |-> TRUE, succeeded |-> (value = 0)]

\* PostThreadMessage(g_mainThreadId, ...): appends to the queue of the main thread
PostThreadMessage(queue, msg) == Append(queue, msg)

RECURSIVE SelectEvents(_)
SelectEvents(queue) ==
    IF queue = << >> THEN << >>
    ELSE IF Head(queue).message = WM_QUIT THEN SelectEvents(Tail(queue))
    ELSE <<Head(queue)>> \o SelectEvents(Tail(queue))

\* platform threads that run WlanNotificationCallback
Threads == {"t1", "t2"}

\* a thread that is not inside the callback
NotCalled ==
    [pc |-> "idle", source |-> "", code |-> "", dwDataSize |-> 0, data |-> 0,
     currentQuality |-> 0, currentRSSI |-> 0]

\* ------------------------------------------------------------------------
\* Initial state: the globals as the static initializers leave them
\* ------------------------------------------------------------------------
Init ==
    /\ pc = "StartNetworkMonitor"
    /\ comDepth = 0
    /\ g_pNetworkListManager = NULL
    /\ g_pCPContainer = NULL
    /\ g_pConnectPoint = NULL
    /\ g_pNetEvents = NULL
    /\ g_dwCookie = 0
    /\ refs = [nlm |-> 0, container |-> 0, point |-> 0, events |-> 0]
    /\ advised = FALSE
    /\ g_hClient = NULL
    /\ hState = "none"
    /\ wlanRegistered = FALSE
    /\ monitorCtx = InitialMonitorCtx
    /\ g_networkConnected = FALSE
    /\ msgQueue = << >>
    /\ netCb = [active |-> FALSE, newConnectivity |-> NLM_CONNECTIVITY_DISCONNECTED]
    /\ currentConnectivity = [queried |-> FALSE, value |-> NLM_CONNECTIVITY_DISCONNECTED]
    /\ posted = << >>
    /\ delivered = << >>
    /\ calls = << >>
    /\ quitAt = 0
    /\ seen = << >>
    /\ wlanCb = [t \in Threads |-> NotCalled]

\* ------------------------------------------------------------------------
\* main(): StartNetworkMonitor.  `fail` names the platform call that fails
\* ("none": all succeed); `connectivity` is what GetConnectivity returns.
\* main() ignores the return value and goes on to StartWlanMonitor.
\* ------------------------------------------------------------------------
NetFailures ==
    {"CoInitializeEx", "CoCreateInstance", "QueryInterface", "FindConnectionPoint",
     "Advise", "GetConnectivity", "none"}

StartNetworkMonitor(fail, connectivity) ==
    LET coInitOk == fail # "CoInitializeEx"
        createOk == coInitOk /\ fail # "CoCreateInstance"
        qiOk     == createOk /\ fail # "QueryInterface"
        findOk   == qiOk /\ fail # "FindConnectionPoint"
        adviseOk == findOk /\ fail # "Advise"
        queryOk  == adviseOk /\ fail # "GetConnectivity"
        initialPost == queryOk /\ connectivity = NLM_CONNECTIVITY_DISCONNECTED
        msg == [message |-> WM_NETWORK_STATUS_CHANGE, wParam |-> 0, lParam |-> 0]
    IN
    /\ pc = "StartNetworkMonitor"
    /\ initialPost => Len(posted) < MaxPosts
    /\ pc' = "StartWlanMonitor"
    /\ comDepth' = IF createOk THEN comDepth + 1 ELSE comDepth
    /\ g_pNetworkListManager' = IF createOk THEN 1 ELSE NULL
    /\ g_pCPContainer' = IF qiOk THEN 1 ELSE NULL
    /\ g_pConnectPoint' = IF findOk THEN 1 ELSE NULL
    /\ g_pNetEvents' = IF findOk THEN 1 ELSE g_pNetEvents
    /\ g_dwCookie' = IF adviseOk THEN 1 ELSE g_dwCookie
    /\ refs' = [nlm |-> IF createOk THEN 1 ELSE 0,
                container |-> IF qiOk THEN 1 ELSE 0,
                point |-> IF findOk THEN 1 ELSE 0,
                events |-> IF adviseOk THEN 2 ELSE IF findOk THEN 1 ELSE 0]
    /\ advised' = adviseOk
    /\ currentConnectivity' =
           IF queryOk THEN [queried |-> TRUE, value |-> connectivity]
           ELSE currentConnectivity
    /\ g_networkConnected' =
           IF queryOk THEN PrintConnectivity(g_networkConnected, connectivity)
           ELSE g_networkConnected
    /\ msgQueue' = IF initialPost THEN PostThreadMessage(msgQueue, msg) ELSE msgQueue
    /\ posted' = IF initialPost THEN Append(posted, msg) ELSE posted
    /\ calls' = calls \o <<Enter("StartNetworkMonitor")>>
           \o <<Call("CoInitializeEx", TRUE, coInitOk)>>
           \o (IF coInitOk THEN <<Call("CoCreateInstance", TRUE, createOk)>> ELSE << >>)
           \o (IF coInitOk /\ ~createOk
               THEN <<Call("CoUninitialize", TRUE, TRUE)>> ELSE << >>)
           \o (IF createOk THEN <<Call("QueryInterface", TRUE, qiOk)>> ELSE << >>)
           \o (IF qiOk THEN <<Call("FindConnectionPoint", TRUE, findOk)>> ELSE << >>)
           \o (IF findOk THEN <<Call("Advise", TRUE, adviseOk)>> ELSE << >>)
           \o (IF adviseOk THEN <<Call("GetConnectivity", TRUE, queryOk)>> ELSE << >>)
           \o <<Return("StartNetworkMonitor", IF createOk THEN 0 ELSE 1)>>
    /\ UNCHANGED <<wlanVars, monitorCtx, netCb, delivered, quitAt, seen, wlanCb>>

\* ------------------------------------------------------------------------
\* main(): StartWlanMonitor.  `query` is the outcome of the one-shot query of
\* the first interface.
\* ------------------------------------------------------------------------
WlanQueryResults ==
    {[status |-> s, wlanSignalQuality |-> 0] :
        s \in {"enum_failed", "query_failed", "not_connected"}}
    \cup {[status |-> "connected", wlanSignalQuality |-> q] : q \in StartQualities}

\* mutant: a start quality equal to thresholdDrop counts as strong
Baseline_StrictlyBelow(ctx, query) ==
    IF query.status = "connected"
    THEN [ctx EXCEPT !.isSignalWeak = (query.wlanSignalQuality < ctx.thresholdDrop),
                     !.lastQuality = query.wlanSignalQuality]
    ELSE ctx

\* mutant: a failed query leaves a weak baseline of quality 0
Baseline_WeakOnFailure(ctx, query) ==
    IF query.status = "connected"
    THEN [ctx EXCEPT !.isSignalWeak = (query.wlanSignalQuality <= ctx.thresholdDrop),
                     !.lastQuality = query.wlanSignalQuality]
    ELSE IF query.status \in {"enum_failed", "query_failed"}
         THEN [ctx EXCEPT !.isSignalWeak = TRUE, !.lastQuality = 0]
    ELSE ctx

\* the baseline StartWlanMonitor leaves in monitorCtx
Baseline(ctx, query) ==
    IF query.status = "connected"
    THEN [ctx EXCEPT !.isSignalWeak = (query.wlanSignalQuality <= ctx.thresholdDrop),
                     !.lastQuality = query.wlanSignalQuality]
    ELSE ctx

\* mutant: the wireless registration takes effect only when the connectivity
\* sink is advised
StartWlanMonitor_NeedsAdvise(openOk, query, registerOk) ==
    /\ pc = "StartWlanMonitor"
    /\ pc' = "GetMessage"
    /\ IF ~openOk
       THEN /\ calls' = calls \o <<Enter("StartWlanMonitor"),
                                   Call("WlanOpenHandle", TRUE, FALSE),
                                   Return("StartWlanMonitor", 1)>>
            /\ UNCHANGED <<wlanVars, monitorCtx>>
       ELSE /\ g_hClient' = 1
            /\ monitorCtx' = Baseline(monitorCtx, query)
            /\ wlanRegistered' = (registerOk /\ advised)
            /\ hState' = IF registerOk THEN "open" ELSE "closed"
            /\ calls' = calls \o <<Enter("StartWlanMonitor"),
                                   Call("WlanOpenHandle", TRUE, TRUE),
                                   Call("WlanEnumInterfaces", TRUE,
                                        query.status # "enum_failed")>>
                   \o (IF query.status # "enum_failed"
                       THEN <<Call("WlanQueryInterface", TRUE,
                                   query.status # "query_failed")>>
                       ELSE << >>)
                   \o <<Call("WlanRegisterNotification", TRUE, registerOk)>>
                   \o (IF registerOk THEN << >>
                       ELSE <<Call("WlanCloseHandle", TRUE, TRUE)>>)
                   \o <<Return("StartWlanMonitor", IF registerOk THEN 0 ELSE 1)>>
    /\ UNCHANGED <<comVars, g_networkConnected, msgQueue, netCb,
                   currentConnectivity, posted, delivered, quitAt, seen, wlanCb>>

StartWlanMonitor(openOk, query, registerOk) ==
    /\ pc = "StartWlanMonitor"
    /\ pc' = "GetMessage"
    /\ IF ~openOk
       THEN /\ calls' = calls \o <<Enter("StartWlanMonitor"),
                                   Call("WlanOpenHandle", TRUE, FALSE),
                                   Return("StartWlanMonitor", 1)>>
            /\ UNCHANGED <<wlanVars, monitorCtx>>
       ELSE /\ g_hClient' = 1
            /\ monitorCtx' = Baseline(monitorCtx, query)
            /\ wlanRegistered' = registerOk
            /\ hState' = IF registerOk THEN "open" ELSE "closed"
            /\ calls' = calls \o <<Enter("StartWlanMonitor"),
                                   Call("WlanOpenHandle", TRUE, TRUE),
                                   Call("WlanEnumInterfaces", TRUE,
                                        query.status # "enum_failed")>>
                   \o (IF query.status # "enum_failed"
                       THEN <<Call("WlanQueryInterface", TRUE,
                                   query.status # "query_failed")>>
                       ELSE << >>)
                   \o <<Call("WlanRegisterNotification", TRUE, registerOk)>>
                   \o (IF registerOk THEN << >>
                       ELSE <<Call("WlanCloseHandle", TRUE, TRUE)>>)
                   \o <<Return("StartWlanMonitor", IF registerOk THEN 0 ELSE 1)>>
    /\ UNCHANGED <<comVars, g_networkConnected, msgQueue, netCb,
                   currentConnectivity, posted, delivered, quitAt, seen, wlanCb>>

\* ------------------------------------------------------------------------
\* CNetworkListManagerEvents::ConnectivityChanged, called by COM on one of its
\* threads while the sink is advised.  PrintConnectivity runs first, then
\* sendNetworkStatusMessage; the main thread may run in between.
\* ------------------------------------------------------------------------
ConnectivityChangedBegin(newConnectivity) ==
    /\ advised
    /\ pc \notin {"exited", "crashed"}
    /\ ~netCb.active
    /\ Len(posted) < MaxPosts
    /\ g_networkConnected' = PrintConnectivity(g_networkConnected, newConnectivity)
    /\ netCb' = [active |-> TRUE, newConnectivity |-> newConnectivity]
    /\ UNCHANGED <<pc, comVars, wlanVars, monitorCtx, msgQueue, currentConnectivity,
                   posted, delivered, calls, quitAt, seen, wlanCb>>

ConnectivityChangedPost ==
    /\ netCb.active
    /\ pc \notin {"exited", "crashed"}
    /\ msgQueue' = PostThreadMessage(msgQueue, NetworkStatusMessage(netCb.newConnectivity))
    /\ posted' = Append(posted, NetworkStatusMessage(netCb.newConnectivity))
    /\ netCb' = [netCb EXCEPT !.active = FALSE]
    /\ UNCHANGED <<pc, comVars, wlanVars, monitorCtx, g_networkConnected,
                   currentConnectivity, delivered, calls, quitAt, seen, wlanCb>>

\* ------------------------------------------------------------------------
\* WlanNotificationCallback (pContext is always &monitorCtx, never null).
\* ------------------------------------------------------------------------
NotificationSources == {"MSM", "ACM"}
NotificationCodes == {"signal_quality_change", "connected", "disconnected"}
DataSizes == {0, SizeofULONG}

\* mutant: the size of the payload is not tested
IsQualityChange_AnySize(source, code, dwDataSize) ==
    /\ source = "MSM"
    /\ code = "signal_quality_change"

\* the notification reaches the hysteresis state machine
IsQualityChange(source, code, dwDataSize) ==
    /\ source = "MSM"
    /\ code = "signal_quality_change"
    /\ dwDataSize >= SizeofULONG

\* monitorCtx after the callback
NextMonitorCtx(ctx, source, code, dwDataSize, currentQuality) ==
    IF ~IsQualityChange(source, code, dwDataSize) THEN ctx
    ELSE IF BecomesWeak(ctx, currentQuality)
         THEN [ctx EXCEPT !.isSignalWeak = TRUE, !.lastQuality = currentQuality]
    ELSE IF BecomesStrong(ctx, currentQuality)
         THEN [ctx EXCEPT !.isSignalWeak = FALSE, !.lastQuality = currentQuality]
    ELSE [ctx EXCEPT !.lastQuality = currentQuality]

\* the messages the callback posts
WlanPosts(ctx, source, code, dwDataSize, currentQuality) ==
    IF IsQualityChange(source, code, dwDataSize)
       /\ (BecomesWeak(ctx, currentQuality) \/ BecomesStrong(ctx, currentQuality))
    THEN <<WlanStatusMessage(currentQuality, QualityToRSSI(currentQuality))>>
    ELSE << >>

WlanNotificationCallback(source, code, dwDataSize, currentQuality) ==
    LET msgs == WlanPosts(monitorCtx, source, code, dwDataSize, currentQuality) IN
    /\ wlanRegistered
    /\ pc \notin {"exited", "crashed"}
    /\ monitorCtx' = NextMonitorCtx(monitorCtx, source, code, dwDataSize, currentQuality)
    /\ msgQueue' = IF msgs = << >> THEN msgQueue
                   ELSE PostThreadMessage(msgQueue, msgs[1])
    /\ posted' = posted \o msgs
    /\ UNCHANGED <<pc, comVars, wlanVars, g_networkConnected, netCb,
                   currentConnectivity, delivered, calls, quitAt, wlanCb>>

\* notifications the platform delivers in the lifecycle specification
LifecycleNotifications ==
    {[source |-> "MSM", code |-> "signal_quality_change",
      dwDataSize |-> SizeofULONG, quality |-> q] : q \in {38, 55}}
    \cup {[source |-> "MSM", code |-> "connected", dwDataSize |-> 0, quality |-> 38]}

\* the record `seen` keeps of one handled quality notification
Handled(before, after, quality, posts) ==
    [quality |-> quality, weakBefore |-> before.isSignalWeak,
     weakAfter |-> after.isSignalWeak, lastQuality |-> after.lastQuality,
     posts |-> posts]

\* the platform delivers a notification while the callback is registered
WlanNotify ==
    /\ Len(posted) < MaxPosts
    /\ \E n \in LifecycleNotifications :
            WlanNotificationCallback(n.source, n.code, n.dwDataSize, n.quality)
    /\ UNCHANGED seen

\* ------------------------------------------------------------------------
\* WlanNotificationCallback statement by statement.  Native Wifi calls it on
\* threads of its own, and nothing in the callback or in SignalMonitorContext
\* orders two calls, so the reads and writes of *pMonitor of several calls
\* interleave.  A call's position is the source line it is about to execute.
\* ------------------------------------------------------------------------
\* what the threaded callback leaves alone in every step
callerVars == <<pc, comVars, wlanVars, g_networkConnected, netCb, currentConnectivity,
                delivered, calls, quitAt, seen>>

\* thread t moves to source line `line`
Goto(t, line) == wlanCb' = [wlanCb EXCEPT ![t].pc = line]

\* lines 173-183: the platform calls the callback on thread t with a
\* notification; `data` is the ULONG at pData
CallbackCalled(t, source, code, dwDataSize, data) ==
    /\ wlanRegistered
    /\ pc \notin {"exited", "crashed"}
    /\ wlanCb[t].pc = "idle"
    /\ wlanCb' = [wlanCb EXCEPT ![t] =
                     [pc |-> "L184", source |-> source, code |-> code,
                      dwDataSize |-> dwDataSize, data |-> data,
                      currentQuality |-> 0, currentRSSI |-> 0]]
    /\ UNCHANGED <<callerVars, monitorCtx, msgQueue, posted>>

\* lines 184-193: the tests of source, code and size; a notification that
\* passes them is read into currentQuality, any other leads to the return
Dispatch(t) ==
    /\ wlanCb[t].pc = "L184"
    /\ wlanCb' = IF IsQualityChange(wlanCb[t].source, wlanCb[t].code,
                                    wlanCb[t].dwDataSize)
                 THEN [wlanCb EXCEPT ![t].pc = "L194",
                                     ![t].currentQuality = wlanCb[t].data]
                 ELSE [wlanCb EXCEPT ![t].pc = "L245"]
    /\ UNCHANGED <<callerVars, monitorCtx, msgQueue, posted>>

\* line 194: int currentRSSI = QualityToRSSI(currentQuality)
ComputeRSSI(t) ==
    /\ wlanCb[t].pc = "L194"
    /\ wlanCb' = [wlanCb EXCEPT ![t].pc = "L198",
                                ![t].currentRSSI = QualityToRSSI(wlanCb[t].currentQuality)]
    /\ UNCHANGED <<callerVars, monitorCtx, msgQueue, posted>>

\* line 198: if (!isSignalWeak && currentQuality <= thresholdDrop)
CheckDrop(t) ==
    /\ wlanCb[t].pc = "L198"
    /\ Goto(t, IF BecomesWeak(monitorCtx, wlanCb[t].currentQuality)
               THEN "L199" ELSE "L210")
    /\ UNCHANGED <<callerVars, monitorCtx, msgQueue, posted>>

\* line 210: else if (isSignalWeak && currentQuality >= thresholdRecover)
CheckRecover(t) ==
    /\ wlanCb[t].pc = "L210"
    /\ Goto(t, IF monitorCtx.isSignalWeak
                  /\ wlanCb[t].currentQuality >= monitorCtx.thresholdRecover
               THEN "L211" ELSE "L221")
    /\ UNCHANGED <<callerVars, monitorCtx, msgQueue, posted>>

\* lines 199 and 211: pMonitor->isSignalWeak = true / false
SetSignalWeak(t) ==
    /\ wlanCb[t].pc \in {"L199", "L211"}
    /\ monitorCtx' = [monitorCtx EXCEPT !.isSignalWeak = (wlanCb[t].pc = "L199")]
    /\ Goto(t, IF wlanCb[t].pc = "L199" THEN "L205" ELSE "L217")
    /\ UNCHANGED <<callerVars, msgQueue, posted>>

\* lines 205 and 217: sendWlanStatusMessage(currentQuality, currentRSSI)
SendWlanStatusMessage(t) ==
    LET msg == WlanStatusMessage(wlanCb[t].currentQuality, wlanCb[t].currentRSSI) IN
    /\ wlanCb[t].pc \in {"L205", "L217"}
    /\ msgQueue' = PostThreadMessage(msgQueue, msg)
    /\ posted' = Append(posted, msg)
    /\ Goto(t, "L221")
    /\ UNCHANGED <<callerVars, monitorCtx>>

\* line 221: pMonitor->lastQuality = currentQuality
RecordLastQuality(t) ==
    /\ wlanCb[t].pc = "L221"
    /\ monitorCtx' = [monitorCtx EXCEPT !.lastQuality = wlanCb[t].currentQuality]
    /\ Goto(t, "L245")
    /\ UNCHANGED <<callerVars, msgQueue, posted>>

\* line 245: the callback returns
CallbackReturn(t) ==
    /\ wlanCb[t].pc = "L245"
    /\ wlanCb' = [wlanCb EXCEPT ![t] = NotCalled]
    /\ UNCHANGED <<callerVars, monitorCtx, msgQueue, posted>>

\* ------------------------------------------------------------------------
\* main(): the message loop.  Some other party posts WM_QUIT to end it.
\* ------------------------------------------------------------------------
HasQuit(queue) == \E i \in 1..Len(queue) : queue[i].message = WM_QUIT

PostQuit ==
    /\ pc = "GetMessage"
    /\ ~HasQuit(msgQueue)
    /\ msgQueue' = PostThreadMessage(msgQueue,
                       [message |-> WM_QUIT, wParam |-> 0, lParam |-> 0])
    /\ quitAt' = Len(posted)
    /\ UNCHANGED <<pc, comVars, wlanVars, monitorCtx, g_networkConnected, netCb,
                   currentConnectivity, posted, delivered, calls, seen, wlanCb>>

\* mutant: the loop handles connectivity messages only
Receive_NetworkOnly(received, msg) ==
    IF msg.message = WM_NETWORK_STATUS_CHANGE THEN Append(received, msg) ELSE received

\* what the loop has received after taking the head of the queue
Receive(received, msg) ==
    IF msg.message = WM_QUIT THEN received ELSE Append(received, msg)

GetMessage ==
    /\ pc = "GetMessage"
    /\ msgQueue # << >>
    /\ msgQueue' = Tail(msgQueue)
    /\ delivered' = Receive(delivered, Head(msgQueue))
    /\ pc' = IF Head(msgQueue).message = WM_QUIT THEN "StopNetworkMonitor" ELSE pc
    /\ UNCHANGED <<comVars, wlanVars, monitorCtx, g_networkConnected, netCb,
                   currentConnectivity, posted, calls, quitAt, seen, wlanCb>>

\* ------------------------------------------------------------------------
\* StopNetworkMonitor, run by main() after the loop and by OnExit().
\* Release() through g_pNetEvents after the object deleted itself is a use of
\* freed memory: the process either goes on or crashes there (`crash`).
\* Unadvise removes the registration; the routine has no lock or flag shared
\* with ConnectivityChanged, so a call of it that is already running on a COM
\* thread (netCb.active) goes on after the routine has returned.
\* ------------------------------------------------------------------------
\* SafeRelease(&p): the call it makes, if any
SafeRelease(p, name, count) ==
    IF p # NULL THEN <<Call(name, count > 0, count > 0)>> ELSE << >>

StopNetworkMonitor(here, next, crash) ==
    LET unadvise == g_pConnectPoint # NULL
        refsA == IF unadvise /\ advised THEN [refs EXCEPT !.events = @ - 1] ELSE refs
        release == g_pNetEvents # NULL
        useAfterFree == release /\ refsA.events = 0
        refsB == IF release /\ ~useAfterFree
                 THEN [refsA EXCEPT !.events = @ - 1] ELSE refsA
        head == <<Enter("StopNetworkMonitor")>>
                \o (IF unadvise THEN <<Call("Unadvise", advised, advised)>> ELSE << >>)
                \o (IF release
                    THEN <<Call("Release(g_pNetEvents)", ~useAfterFree, ~useAfterFree)>>
                    ELSE << >>)
        rest == SafeRelease(g_pConnectPoint, "Release(g_pConnectPoint)", refs.point)
                \o SafeRelease(g_pCPContainer, "Release(g_pCPContainer)", refs.container)
                \o SafeRelease(g_pNetworkListManager, "Release(g_pNetworkListManager)",
                               refs.nlm)
                \o <<Call("CoUninitialize", comDepth > 0, TRUE)>>
    IN
    /\ pc = here
    /\ crash => useAfterFree
    /\ advised' = IF unadvise THEN FALSE ELSE advised
    /\ UNCHANGED <<g_pNetEvents, g_dwCookie>>
    /\ IF crash
       THEN /\ pc' = "crashed"
            /\ calls' = calls \o head
            /\ refs' = refsB
            /\ UNCHANGED <<g_pConnectPoint, g_pCPContainer, g_pNetworkListManager,
                           comDepth>>
       ELSE /\ pc' = next
            /\ calls' = calls \o head \o rest
            /\ refs' = [refsB EXCEPT !.point = 0, !.container = 0, !.nlm = 0]
            /\ g_pConnectPoint' = NULL
            /\ g_pCPContainer' = NULL
            /\ g_pNetworkListManager' = NULL
            /\ comDepth' = IF comDepth > 0 THEN comDepth - 1 ELSE comDepth
    /\ UNCHANGED <<wlanVars, monitorCtx, g_networkConnected, msgQueue, netCb,
                   currentConnectivity, posted, delivered, quitAt, seen, wlanCb>>

\* ------------------------------------------------------------------------
\* StopWlanMonitor: both calls are made on g_hClient whatever its state.
\* WlanCloseHandle returns only when no callback is running.
\* ------------------------------------------------------------------------
\* mutant: the handle is closed before the registration is cancelled
StopWlanMonitor_CloseFirst(here, next) ==
    /\ pc = here
    /\ pc' = next
    /\ calls' = calls \o <<Enter("StopWlanMonitor"),
                           Call("WlanCloseHandle", hState = "open", hState = "open"),
                           Call("WlanRegisterNotification(NONE)", FALSE, FALSE)>>
    /\ wlanRegistered' = FALSE
    /\ hState' = IF hState = "open" THEN "closed" ELSE hState
    /\ UNCHANGED <<g_hClient, comVars, monitorCtx, g_networkConnected, msgQueue, netCb,
                   currentConnectivity, posted, delivered, quitAt, seen, wlanCb>>

StopWlanMonitor(here, next) ==
    /\ pc = here
    /\ pc' = next
    /\ calls' = calls \o <<Enter("StopWlanMonitor"),
                           Call("WlanRegisterNotification(NONE)",
                                hState = "open", hState = "open"),
                           Call("WlanCloseHandle", hState = "open", hState = "open")>>
    /\ wlanRegistered' = FALSE
    /\ hState' = IF hState = "open" THEN "closed" ELSE hState
    /\ UNCHANGED <<g_hClient, comVars, monitorCtx, g_networkConnected, msgQueue, netCb,
                   currentConnectivity, posted, delivered, quitAt, seen, wlanCb>>

\* ------------------------------------------------------------------------
\* OnExit: the exit hook.  NetworkMonitor.cpp defines it and registers it
\* nowhere; the model lets the host call it when the process ends, be that
\* before main() started monitoring, while it loops, or after it returned.
\* ------------------------------------------------------------------------
OnExit ==
    /\ pc \in {"StartNetworkMonitor", "GetMessage", "returned"}
    /\ pc' = "OnExit"
    /\ calls' = calls \o <<Enter("OnExit")>>
    /\ UNCHANGED <<comVars, wlanVars, monitorCtx, g_networkConnected, msgQueue, netCb,
                   currentConnectivity, posted, delivered, quitAt, seen, wlanCb>>

\* ------------------------------------------------------------------------
\* The steps of the program
\* ------------------------------------------------------------------------
MainStartNetworkMonitor ==
    \E fail \in NetFailures, c \in Connectivities : StartNetworkMonitor(fail, c)

MainStartWlanMonitor ==
    \E openOk \in BOOLEAN, query \in WlanQueryResults, registerOk \in BOOLEAN :
        StartWlanMonitor(openOk, query, registerOk)

ConnectivityChanged ==
    \E c \in Connectivities : ConnectivityChangedBegin(c)

MainStopNetworkMonitor ==
    \E crash \in BOOLEAN : StopNetworkMonitor("StopNetworkMonitor", "StopWlanMonitor", crash)

MainStopWlanMonitor == StopWlanMonitor("StopWlanMonitor", "returned")

OnExitStopNetworkMonitor ==
    \E crash \in BOOLEAN : StopNetworkMonitor("OnExit", "OnExit_StopWlanMonitor", crash)

OnExitStopWlanMonitor == StopWlanMonitor("OnExit_StopWlanMonitor", "exited")

Next ==
    \/ MainStartNetworkMonitor
    \/ MainStartWlanMonitor
    \/ ConnectivityChanged
    \/ ConnectivityChangedPost
    \/ WlanNotify
    \/ PostQuit
    \/ GetMessage
    \/ MainStopNetworkMonitor
    \/ MainStopWlanMonitor
    \/ OnExit
    \/ OnExitStopNetworkMonitor
    \/ OnExitStopWlanMonitor

Spec == Init /\ [][Next]_vars

\* ------------------------------------------------------------------------
\* SpecWlan: after a start in which every call succeeds, the platform
\* delivers signal-quality notifications one after another; `seen` keeps
\* what each of them did.
\* ------------------------------------------------------------------------
WlanStart ==
    \/ StartNetworkMonitor("none", {"IPV4_INTERNET"})
    \/ \E query \in WlanQueryResults : StartWlanMonitor(TRUE, query, TRUE)

SignalQualityChange ==
    /\ Len(seen) < MaxSeen
    /\ \E q \in Qualities :
        /\ WlanNotificationCallback("MSM", "signal_quality_change", SizeofULONG, q)
        /\ seen' = Append(seen, Handled(monitorCtx, monitorCtx', q,
                                        SubSeq(posted', Len(posted) + 1, Len(posted'))))

NextWlan ==
    \/ WlanStart
    \/ SignalQualityChange

SpecWlan == Init /\ [][NextWlan]_vars

\* ------------------------------------------------------------------------
\* SpecConn: after a start in which every call succeeds, the platform reports
\* connectivity changes one after another, with any combination of flags.
\* ------------------------------------------------------------------------
ConnStart ==
    \/ \E c \in Connectivities : StartNetworkMonitor("none", c)
    \/ StartWlanMonitor(TRUE, [status |-> "not_connected", wlanSignalQuality |-> 0], TRUE)

AnyConnectivityChanged ==
    \E c \in AllConnectivities : ConnectivityChangedBegin(c)

NextConn ==
    \/ ConnStart
    \/ AnyConnectivityChanged
    \/ ConnectivityChangedPost

SpecConn == Init /\ [][NextConn]_vars

\* ------------------------------------------------------------------------
\* SpecRssi: after a start in which every call succeeds, the platform calls
\* the callback on each thread with any quality in 0..MaxQuality, and the
\* call converts it (line 194).  The statements that follow the conversion
\* are the subject of SpecThreads.
\* ------------------------------------------------------------------------
RssiQualities == 0..MaxQuality

NextRssi ==
    \/ WlanStart
    \/ \E t \in Threads, q \in RssiQualities :
            CallbackCalled(t, "MSM", "signal_quality_change", SizeofULONG, q)
    \/ \E t \in Threads : Dispatch(t)
    \/ \E t \in Threads : ComputeRSSI(t)

SpecRssi == Init /\ [][NextRssi]_vars

\* ------------------------------------------------------------------------
\* SpecThreads: after a start in which every call succeeds, the platform
\* delivers notifications on several threads at once: signal-quality
\* notifications and notifications of other sources, codes and sizes.
\* ------------------------------------------------------------------------
ThreadQualities == {38, 45, 55}

ThreadNotifications ==
    {[source |-> "MSM", code |-> "signal_quality_change",
      dwDataSize |-> SizeofULONG, data |-> q] : q \in ThreadQualities}
    \cup {[source |-> "ACM", code |-> "signal_quality_change",
           dwDataSize |-> SizeofULONG, data |-> 38],
          [source |-> "MSM", code |-> "signal_quality_change",
           dwDataSize |-> 0, data |-> 38],
          [source |-> "MSM", code |-> "connected", dwDataSize |-> SizeofULONG, data |-> 38],
          [source |-> "MSM", code |-> "disconnected", dwDataSize |-> 0, data |-> 55]}

Notified ==
    /\ Len(posted) < MaxPosts
    /\ \E t \in Threads, n \in ThreadNotifications :
            CallbackCalled(t, n.source, n.code, n.dwDataSize, n.data)

NextThreads ==
    \/ WlanStart
    \/ Notified
    \/ \E t \in Threads : Dispatch(t)
    \/ \E t \in Threads : ComputeRSSI(t)
    \/ \E t \in Threads : CheckDrop(t)
    \/ \E t \in Threads : CheckRecover(t)
    \/ \E t \in Threads : SetSignalWeak(t)
    \/ \E t \in Threads : SendWlanStatusMessage(t)
    \/ \E t \in Threads : RecordLastQuality(t)
    \/ \E t \in Threads : CallbackReturn(t)

SpecThreads == Init /\ [][NextThreads]_vars

\* ------------------------------------------------------------------------
\* Helpers over the ghost state
\* ------------------------------------------------------------------------
CallIndexes(fn) ==
    {i \in DOMAIN calls : calls[i].kind = "call" /\ calls[i].fn = fn}

EnterIndexes(fn) ==
    {i \in DOMAIN calls : calls[i].kind = "enter" /\ calls[i].fn = fn}

Succeeded(fn) == \E i \in CallIndexes(fn) : calls[i].succeeded

Failed(fn) == \E i \in CallIndexes(fn) : ~calls[i].succeeded

\* start() acquired everything: both subscribers are registered
StartedFully == Succeeded("Advise") /\ Succeeded("WlanRegisterNotification")

\* one of the calls of start() failed
StartFailurePoints ==
    {"CoInitializeEx", "CoCreateInstance", "QueryInterface", "FindConnectionPoint",
     "Advise", "WlanOpenHandle", "WlanRegisterNotification"}

StartedPartially == \E fn \in StartFailurePoints : Failed(fn)

\* calls that release, close, unregister or tear down
TeardownCalls ==
    {"Unadvise", "Release(g_pNetEvents)", "Release(g_pConnectPoint)",
     "Release(g_pCPContainer)", "Release(g_pNetworkListManager)", "CoUninitialize",
     "WlanRegisterNotification(NONE)", "WlanCloseHandle"}

\* the stop sequence has returned to its caller
StopReturned == pc \in {"returned", "exited"}

\* the connectivity events among the posted ones, in order
RECURSIVE NetworkEvents(_)
NetworkEvents(events) ==
    IF events = << >> THEN << >>
    ELSE IF Head(events).message = WM_NETWORK_STATUS_CHANGE
         THEN <<Head(events)>> \o NetworkEvents(Tail(events))
         ELSE NetworkEvents(Tail(events))

\* ------------------------------------------------------------------------
\* C1: each signal-quality notification handled in turn posts an event
\* exactly when (strong and q <= thresholdDrop) or (weak and q >=
\* thresholdRecover), and exactly then flips isSignalWeak; from a strong
\* baseline the sequence 60, 45, 38, 42, 55 posts events at 38 and 55 only.
\* ------------------------------------------------------------------------
Crosses(h) ==
    \/ (~h.weakBefore) /\ h.quality <= monitorCtx.thresholdDrop
    \/ h.weakBefore /\ h.quality >= monitorCtx.thresholdRecover

C1_Hysteresis ==
    /\ \A i \in DOMAIN seen :
        /\ Crosses(seen[i]) <=> Len(seen[i].posts) = 1
        /\ (~Crosses(seen[i])) <=> seen[i].posts = << >>
        /\ Crosses(seen[i]) <=> (seen[i].weakAfter # seen[i].weakBefore)
        /\ i < Len(seen) => seen[i + 1].weakBefore = seen[i].weakAfter
    /\ seen # << >> => monitorCtx.isSignalWeak = seen[Len(seen)].weakAfter
    /\ ( /\ [i \in DOMAIN seen |-> seen[i].quality] = <<60, 45, 38, 42, 55>>
         /\ ~seen[1].weakBefore )
       => [i \in DOMAIN seen |-> Len(seen[i].posts)] = <<0, 0, 1, 0, 1>>

C1_Witness ==
    /\ [i \in DOMAIN seen |-> seen[i].quality] = <<60, 45, 38, 42, 55>>
    /\ ~seen[1].weakBefore
    /\ [i \in 1..Len(posted) |-> posted[i].wParam] = <<38, 55>>

\* ------------------------------------------------------------------------
\* C2: when Advise and the query of the current state both succeed,
\* StartNetworkMonitor posts one initial connectivity event carrying
\* hasInternet of the queried state, whatever that state is.
\* ------------------------------------------------------------------------
C2_InitialEvent ==
    currentConnectivity.queried =>
        /\ posted # << >>
        /\ posted[1] = NetworkStatusMessage(currentConnectivity.value)

\* ------------------------------------------------------------------------
\* C3: no two consecutive connectivity events posted to the consumer carry
\* the same hasInternet value.
\* ------------------------------------------------------------------------
C3_Deduplicated ==
    LET events == NetworkEvents(posted) IN
    \A i \in 1..(Len(events) - 1) : events[i].wParam # events[i + 1].wParam

\* ------------------------------------------------------------------------
\* C4: the status posted by sendNetworkStatusMessage is 1 if the IPv4-Internet
\* or the IPv6-Internet flag is set and 0 otherwise, for all flag combinations.
\* ------------------------------------------------------------------------
C4_StatusIsInternetFlag ==
    [][ (netCb.active /\ ~netCb'.active) =>
          LET flags == netCb.newConnectivity
              internet == ("IPV4_INTERNET" \in flags) \/ ("IPV6_INTERNET" \in flags)
          IN /\ Len(posted') = Len(posted) + 1
             /\ posted'[Len(posted')].message = WM_NETWORK_STATUS_CHANGE
             /\ internet => posted'[Len(posted')].wParam = 1
             /\ (~internet) => posted'[Len(posted')].wParam = 0 ]_vars

C4_Witness ==
    /\ ~netCb.active
    /\ netCb.newConnectivity = {"IPV4_SUBNET", "IPV6_LOCALNETWORK", "IPV6_INTERNET"}
    /\ posted # << >>
    /\ posted[Len(posted)].wParam = 1

\* ------------------------------------------------------------------------
\* C5: stop() is idempotent: after a start that acquired everything, a second
\* run of the stop sequence makes no release or teardown call; in total every
\* resource is released once and no call touches a released object or a
\* closed handle.
\* ------------------------------------------------------------------------
SecondStop ==
    CHOOSE i \in EnterIndexes("StopNetworkMonitor") :
        \A j \in EnterIndexes("StopNetworkMonitor") : j <= i

C5_StopIdempotent ==
    (StartedFully /\ Cardinality(EnterIndexes("StopNetworkMonitor")) = 2) =>
        /\ \A i \in DOMAIN calls : i > SecondStop => calls[i].kind = "enter"
        /\ \A fn \in TeardownCalls : Cardinality(CallIndexes(fn)) <= 1
        /\ \A i \in DOMAIN calls : calls[i].valid

\* ------------------------------------------------------------------------
\* C6: stop() before start() is a no-op: with nothing acquired the stop
\* sequence makes no unregister, release, close or teardown call and leaves
\* the state as it was.
\* ------------------------------------------------------------------------
NothingAcquired ==
    /\ comDepth = 0
    /\ g_pNetworkListManager = NULL /\ g_pCPContainer = NULL
    /\ g_pConnectPoint = NULL /\ g_pNetEvents = NULL
    /\ g_dwCookie = 0 /\ ~advised
    /\ g_hClient = NULL /\ hState = "none" /\ ~wlanRegistered

C6_StopBeforeStartNoOp ==
    (calls # << >> /\ calls[1] = Enter("OnExit")) =>
        /\ \A fn \in TeardownCalls : CallIndexes(fn) = {}
        /\ NothingAcquired

\* ------------------------------------------------------------------------
\* C7: after a start() in which one of the calls failed, stop() cleans up only
\* what was acquired: it unregisters no registration that was never made,
\* releases or closes nothing a second time, and does not tear the runtime
\* down more often than it was initialized.
\* ------------------------------------------------------------------------
C7_StopAfterPartialStart ==
    (StartedPartially /\ StopReturned) =>
        \A i \in DOMAIN calls : calls[i].valid

\* ------------------------------------------------------------------------
\* C8: stop() runs in reverse order of acquisition: the wireless subscriber is
\* unregistered before the connectivity subscriber, and the runtime is torn
\* down after every other release.
\* ------------------------------------------------------------------------
C8_ReverseOrder ==
    (StartedFully /\ pc = "returned") =>
        /\ \A w \in CallIndexes("WlanRegisterNotification(NONE)"),
              u \in CallIndexes("Unadvise") : w < u
        /\ \A t \in CallIndexes("CoUninitialize"), i \in DOMAIN calls :
              (calls[i].kind = "call" /\ calls[i].fn \in TeardownCalls) => i <= t

\* ------------------------------------------------------------------------
\* C9: once stop() has returned no registration is active and no further
\* event is posted, even if a callback was running when stop was called.
\* ------------------------------------------------------------------------
C9_SilentAfterStop ==
    /\ [](StopReturned => (~advised /\ ~wlanRegistered))
    /\ [][StopReturned => posted' = posted]_vars

\* ------------------------------------------------------------------------
\* C10 as stated: every event posted is delivered to the loop of main()
\* exactly once and in posting order, so when main() has returned the events
\* received are the events posted.
\* ------------------------------------------------------------------------
C10_EveryPostedEventDelivered ==
    pc = "returned" => delivered = posted

\* ------------------------------------------------------------------------
\* C10 amended: the events the loop of main() has received, followed by the
\* events still in the queue, are the events posted, in posting order (none
\* is duplicated, none overtakes another, none leaves the queue unreceived);
\* and when the loop has ended, it has received every event posted before
\* WM_QUIT was.  Events posted after that stay in the queue.
\* ------------------------------------------------------------------------
LoopEnded == pc \in {"StopNetworkMonitor", "StopWlanMonitor", "returned"}

C10_ExactlyOnceInOrder ==
    /\ delivered \o SelectEvents(msgQueue) = posted
    /\ LoopEnded => Len(delivered) >= quitAt

C10_Witness ==
    /\ LoopEnded
    /\ Len(delivered) = 3
    /\ quitAt = 3
    /\ delivered[1] = NetworkStatusMessage(NLM_CONNECTIVITY_DISCONNECTED)
    /\ currentConnectivity.queried
    /\ currentConnectivity.value = NLM_CONNECTIVITY_DISCONNECTED
    /\ \E i \in 2..3 : delivered[i].message = WM_WIFI_SIGNAL_CHANGE
    /\ \E i \in 2..3 : delivered[i].message = WM_NETWORK_STATUS_CHANGE

\* ------------------------------------------------------------------------
\* C11: start attempts the connectivity registration first and the wireless
\* registration second, and the two are independent: when the lookup of the
\* connection point or Advise failed, StartWlanMonitor still runs and the
\* wireless callback is registered exactly when its own registration call
\* succeeded (and then posts events); whatever StartWlanMonitor did, the
\* connectivity sink is advised exactly when Advise succeeded.
\* ------------------------------------------------------------------------
ConnectivitySubscriptionFailed == Failed("FindConnectionPoint") \/ Failed("Advise")

WirelessSubscriptionFailed == Failed("WlanOpenHandle") \/ Failed("WlanRegisterNotification")

C11_IndependentRegistrations ==
    /\ \A w \in EnterIndexes("StartWlanMonitor") :
           /\ \E n \in EnterIndexes("StartNetworkMonitor") : n < w
           /\ \A a \in CallIndexes("Advise") \cup CallIndexes("FindConnectionPoint") :
                  a < w
    /\ pc = "GetMessage" =>
           /\ EnterIndexes("StartWlanMonitor") # {}
           /\ wlanRegistered <=> Succeeded("WlanRegisterNotification")
           /\ advised <=> Succeeded("Advise")
    /\ (ConnectivitySubscriptionFailed /\ wlanRegistered) =>
           \A i \in DOMAIN posted : posted[i].message = WM_WIFI_SIGNAL_CHANGE

C11_Witness ==
    /\ pc = "GetMessage"
    /\ Failed("Advise")
    /\ wlanRegistered
    /\ posted # << >>
    /\ posted[Len(posted)].message = WM_WIFI_SIGNAL_CHANGE

\* the other direction: the wireless subscription failed and a connectivity
\* event was posted all the same
C11_WitnessWirelessFailed ==
    /\ pc = "GetMessage"
    /\ WirelessSubscriptionFailed
    /\ advised
    /\ posted # << >>
    /\ posted[Len(posted)].message = WM_NETWORK_STATUS_CHANGE

\* ------------------------------------------------------------------------
\* C12: when CoInitializeEx failed, start as a whole is abandoned: neither the
\* connectivity sink nor the wireless callback is registered afterwards.
\* ------------------------------------------------------------------------
C12_InitFailureIsFatal ==
    Failed("CoInitializeEx") => (~advised /\ ~wlanRegistered)

\* ------------------------------------------------------------------------
\* C13: the exit hook runs the stop sequence if and only if it has not run
\* yet: no run executes StopNetworkMonitor or StopWlanMonitor twice, and when
\* the process has ended after a start each of them has run exactly once.
\* ------------------------------------------------------------------------
C13_StopExactlyOnce ==
    /\ Cardinality(EnterIndexes("StopNetworkMonitor")) <= 1
    /\ Cardinality(EnterIndexes("StopWlanMonitor")) <= 1
    /\ (StopReturned /\ EnterIndexes("StartNetworkMonitor") # {}) =>
           /\ Cardinality(EnterIndexes("StopNetworkMonitor")) = 1
           /\ Cardinality(EnterIndexes("StopWlanMonitor")) = 1

\* ------------------------------------------------------------------------
\* C14: the baseline of StartWlanMonitor is exact and silent: when the query
\* of the current connection returns quality q, the routine leaves
\* isSignalWeak = (q <= thresholdDrop) and lastQuality = q, it posts nothing,
\* and no signal event exists before the routine has run.
\* ------------------------------------------------------------------------
C14_SilentExactBaseline ==
    /\ [][\A openOk \in BOOLEAN, query \in WlanQueryResults, registerOk \in BOOLEAN :
            StartWlanMonitor(openOk, query, registerOk) =>
                /\ posted' = posted
                /\ msgQueue' = msgQueue
                /\ (openOk /\ query.status = "connected") =>
                       /\ monitorCtx'.isSignalWeak
                              = (query.wlanSignalQuality <= InitialThresholdDrop)
                       /\ monitorCtx'.lastQuality = query.wlanSignalQuality
                       /\ monitorCtx'.thresholdDrop = InitialThresholdDrop
                       /\ monitorCtx'.thresholdRecover = InitialThresholdRecover]_vars
    /\ [](pc \in {"StartNetworkMonitor", "StartWlanMonitor"} =>
             \A i \in DOMAIN posted : posted[i].message # WM_WIFI_SIGNAL_CHANGE)

C14_Witness ==
    /\ pc = "GetMessage"
    /\ Succeeded("WlanQueryInterface")
    /\ monitorCtx.isSignalWeak
    /\ monitorCtx.lastQuality = 40
    /\ posted = << >>

Converted == {t \in Threads : wlanCb[t].pc = "L198"}

C16_QualityToRSSI ==
    /\ \A t \in Converted :
        LET q == wlanCb[t].currentQuality
            rssi == wlanCb[t].currentRSSI
        IN /\ q = 0 => rssi = -100
           /\ q >= 100 => rssi = -50
           /\ (1 <= q /\ q <= 99) =>
                  /\ rssi + 100 \in Nat
                  /\ 2 * (rssi + 100) <= q
                  /\ q < 2 * (rssi + 100) + 2
           /\ q = 40 => rssi = -80
           /\ -100 <= rssi /\ rssi <= -50
    /\ \A t, u \in Converted :
        wlanCb[t].currentQuality <= wlanCb[u].currentQuality
            => wlanCb[t].currentRSSI <= wlanCb[u].currentRSSI

C16_Witness ==
    /\ wlanCb["t1"].pc = "L198"
    /\ wlanCb["t1"].currentQuality = 40 /\ wlanCb["t1"].currentRSSI = -80
    /\ wlanCb["t2"].pc = "L198"
    /\ wlanCb["t2"].currentQuality = 101 /\ wlanCb["t2"].currentRSSI = -50

\* ------------------------------------------------------------------------
\* C17: the callback reacts to MSM signal-quality notifications only: a call
\* that carries a notification of another source, an MSM notification with
\* another code, or a payload smaller than one ULONG goes straight to its
\* return; no step of such a call changes isSignalWeak or lastQuality or
\* posts an event.
\* ------------------------------------------------------------------------
Ignorable(call) ==
    /\ call.pc # "idle"
    /\ \/ call.source # "MSM"
       \/ call.code # "signal_quality_change"
       \/ call.dwDataSize < SizeofULONG

C17_OnlySignalQuality ==
    /\ [][\A t \in Threads :
            (wlanCb'[t] # wlanCb[t] /\ (Ignorable(wlanCb[t]) \/ Ignorable(wlanCb'[t])))
                => /\ monitorCtx' = monitorCtx
                   /\ posted' = posted
                   /\ msgQueue' = msgQueue]_vars
    /\ [](\A t \in Threads : Ignorable(wlanCb[t]) => wlanCb[t].pc \in {"L184", "L245"})

C17_Witness ==
    /\ wlanCb["t1"].pc = "L245" /\ wlanCb["t1"].source = "ACM"
    /\ wlanCb["t2"].pc = "L245" /\ wlanCb["t2"].code = "signal_quality_change"
    /\ wlanCb["t2"].source = "MSM" /\ wlanCb["t2"].dwDataSize = 0
    /\ ~monitorCtx.isSignalWeak
    /\ monitorCtx.lastQuality = 41
    /\ posted = << >>

\* ------------------------------------------------------------------------
\* C18: a failed one-shot query is not fatal.  When GetConnectivity fails
\* after Advise, the sink stays advised, nothing is posted for the unknown
\* state and StartNetworkMonitor returns 0; when WlanEnumInterfaces or
\* WlanQueryInterface fails, StartWlanMonitor still calls
\* WlanRegisterNotification, the callback is registered when that call
\* succeeds, and monitorCtx keeps its initial value.
\* ------------------------------------------------------------------------
ReturnedSuccess(fn) ==
    \E i \in DOMAIN calls :
        calls[i].kind = "return" /\ calls[i].fn = fn /\ calls[i].succeeded

C18_FailedQueryNotFatal ==
    /\ [](Failed("GetConnectivity") =>
            /\ Succeeded("Advise")
            /\ ReturnedSuccess("StartNetworkMonitor")
            /\ ~currentConnectivity.queried
            /\ pc \in {"StartWlanMonitor", "GetMessage"} => advised)
    /\ [][Failed("GetConnectivity")' /\ ~Failed("GetConnectivity")
            => (advised' /\ posted' = posted)]_vars
    /\ [][\A openOk \in BOOLEAN, query \in WlanQueryResults, registerOk \in BOOLEAN :
            ( /\ StartWlanMonitor(openOk, query, registerOk)
              /\ openOk
              /\ query.status \in {"enum_failed", "query_failed"} )
            => /\ \E i \in DOMAIN calls' :
                    /\ i > Len(calls)
                    /\ calls'[i].fn = "WlanRegisterNotification"
                    /\ calls'[i].succeeded = registerOk
               /\ wlanRegistered' = registerOk
               /\ \E i \in DOMAIN calls' :
                    /\ calls'[i] = Return("StartWlanMonitor", IF registerOk THEN 0 ELSE 1)
               /\ monitorCtx' = InitialMonitorCtx]_vars

C18_Witness ==
    /\ pc = "GetMessage"
    /\ Failed("GetConnectivity")
    /\ advised
    /\ Failed("WlanQueryInterface")
    /\ wlanRegistered
    /\ ReturnedSuccess("StartWlanMonitor")
    /\ monitorCtx = InitialMonitorCtx
    /\ posted # << >>

\* ------------------------------------------------------------------------
\* C19: each stop routine cancels the registration before it releases what
\* the callback depends on: in a run of StopNetworkMonitor, Unadvise comes
\* before Release of the sink, of the connection point, of the container and
\* of the manager, and is made whenever the sink is advised; in a run of
\* StopWlanMonitor, WlanRegisterNotification(NONE) comes before
\* WlanCloseHandle.
\* ------------------------------------------------------------------------
ComReleases ==
    {"Release(g_pNetEvents)", "Release(g_pConnectPoint)", "Release(g_pCPContainer)",
     "Release(g_pNetworkListManager)"}

\* position of the call of fn in a routine's trace, 0 when it is not there
PositionOf(trace, fn) ==
    IF \E i \in DOMAIN trace : trace[i].fn = fn
    THEN CHOOSE i \in DOMAIN trace : trace[i].fn = fn
    ELSE 0

C19_UnregisterBeforeRelease ==
    [][LET run == SubSeq(calls', Len(calls) + 1, Len(calls')) IN
       /\ (run # << >> /\ run[1] = Enter("StopNetworkMonitor")) =>
            /\ \A i, j \in DOMAIN run :
                   (run[i].fn = "Unadvise" /\ run[j].fn \in ComReleases) => i < j
            /\ advised => PositionOf(run, "Unadvise") = 2
            /\ ~advised'
       /\ (run # << >> /\ run[1] = Enter("StopWlanMonitor")) =>
            /\ PositionOf(run, "WlanRegisterNotification(NONE)") = 2
            /\ PositionOf(run, "WlanCloseHandle") = 3
            /\ ~wlanRegistered']_vars

C19_Witness ==
    /\ pc = "returned"
    /\ StartedFully
    /\ Succeeded("Unadvise")
    /\ Succeeded("WlanRegisterNotification(NONE)")
    /\ \A fn \in ComReleases \cup {"WlanCloseHandle"} : Succeeded(fn)

\* ------------------------------------------------------------------------
\* C20: with notifications handled on several threads at once, the signal
\* events posted still alternate strictly between became-weak (quality at
\* most thresholdDrop) and became-strong: no two events in a row report the
\* same direction.
\* ------------------------------------------------------------------------
BecameWeak(event) == event.wParam <= InitialThresholdDrop

C20_StrictAlternation ==
    \A i \in 1..(Len(posted) - 1) : BecameWeak(posted[i]) # BecameWeak(posted[i + 1])

\* ------------------------------------------------------------------------
\* C21: whenever PrintConnectivity has processed a connectivity value (the
\* snapshot of StartNetworkMonitor or the argument of ConnectivityChanged),
\* g_networkConnected is TRUE exactly when that value has the IPv4-Internet
\* or the IPv6-Internet flag; so when the callback then posts its status,
\* the status is 1 exactly when g_networkConnected is TRUE.
\* ------------------------------------------------------------------------
InternetFlagSet(connectivity) ==
    ("IPV4_INTERNET" \in connectivity) \/ ("IPV6_INTERNET" \in connectivity)

C21_ConnectedFlagIsHasInternet ==
    /\ [][(currentConnectivity'.queried /\ ~currentConnectivity.queried) =>
            (g_networkConnected' <=> InternetFlagSet(currentConnectivity'.value))]_vars
    /\ [][(netCb'.active /\ ~netCb.active) =>
            (g_networkConnected' <=> InternetFlagSet(netCb'.newConnectivity))]_vars
    /\ [][(netCb.active /\ ~netCb'.active) =>
            (g_networkConnected' <=> (posted'[Len(posted')].wParam = 1))]_vars

====
